---- MODULE Spec2Model ----
(***************************************************************************)
(* The data-steward platform's client-side state machines.                 *)
(*                                                                         *)
(*   Spec      the Data Source Catalog (DataSourceManager) together with   *)
(*             the DataChat page's selection state: load, add              *)
(*             (handleFileUpload), remove (deleteDataSource), save         *)
(*             (saveDataSources) and select, with every await of the       *)
(*             handlers as a separate step so that handlers interleave as  *)
(*             they do on the browser's task queue.                        *)
(*   ChatSpec  the Data Chat Surface (DataChatInterface) driven by its     *)
(*             dataSource prop: the selection effect, ask (sendMessage),   *)
(*             report (generateDataReport) and the replies of the external *)
(*             extraction and completion calls.                            *)
(*                                                                         *)
(* External calls (auth.me, storage.upload, data.extract*, ai.generate*,   *)
(* localStorage) resolve or reject nondeterministically.  Optional values  *)
(* (TypeScript's `x?: T`, null) are tuples: <<>> is absent, <<v>> present. *)
(* Text is a tuple of one-character strings where the code looks inside    *)
(* it (file names, typed questions).                                       *)
(***************************************************************************)
EXTENDS Integers, Sequences, FiniteSets, TLC

VARIABLES
    \* DataSourceManager (src/unnamed/part_000:419-424)
    dataSources, loading, uploading, searchQuery, showUploadDialog,
    \* localStorage entry `dataSources_${user.id}` of the signed-in user
    persisted,
    \* DataChat page (src/src/pages/DataChat.tsx:24), the chat's dataSource prop
    selected,
    \* handleFileUpload in flight: position, the file, the dataSources its
    \* closure captured, the record it built, and what was persisted when it began
    addPc, addFile, addCaptured, addNew, addPersisted0,
    \* saveDataSources calls awaiting auth.me()
    pendingSaves,
    \* Date.now(), in ticks
    now,
    \* DataChatInterface (src/unnamed/part_000:53-56)
    messages, newMessage, isAiTyping, dataContent,
    \* extractFromUrl and generateText calls in flight, ask and report calls
    \* made so far, and the last reply generateText delivered
    pendingExtract, pendingAI, calls, reply,
    \* ChatWorkspace (src/src/pages/ChatWorkspace.tsx:43-48): its activeChannel,
    \* messages, newMessage and isAiTyping, and whether it is mounted
    activeChannel, teamMessages, teamNewMessage, teamAiTyping, mounted,
    \* the runs of ChatWorkspace's effect on [activeChannel] with the state of
    \* each run's realtime subscription, the sendMessage calls made, the
    \* realtime events not yet delivered, and the errors that escaped a callback
    effects, sends, bus, unhandled,
    \* the realtime events of other users handed to the component's callbacks
    received,
    \* the catalogs of two browser tabs of one user, over the same storage entry
    tabs,
    \* App (src/src/App.tsx:13-14): its user and loading, the URL path of the
    \* page, and the auth states onAuthStateChanged has notified so far
    appUser, appLoading, path, authStates

catalogVars == <<dataSources, loading, uploading, searchQuery, showUploadDialog,
                 persisted, addPc, addFile, addCaptured, addNew, addPersisted0,
                 pendingSaves, now>>
chatVars == <<messages, newMessage, isAiTyping, dataContent,
              pendingExtract, pendingAI, calls, reply>>
workspaceVars == <<activeChannel, teamMessages, teamNewMessage, teamAiTyping,
                   mounted, effects, sends, bus, unhandled, received>>
\* the state outside the DataChat page
shellVars == <<appUser, appLoading, path, authStates>>
otherScreens == <<workspaceVars, tabs, shellVars>>
vars == <<catalogVars, selected, chatVars, otherScreens>>

----------------------------------------------------------------------------
(* Bounds of the model *)

\* records created by add in one run
MaxAdds == 1
\* saveDataSources calls of remove awaiting auth.me() at once
MaxPendingSaves == 1
\* ask and report calls in one run
MaxCalls == 2

----------------------------------------------------------------------------
(* Optional values *)

NoVal == <<>>
Some(x) == <<x>>
IsSome(o) == Len(o) = 1
Get(o) == o[1]

----------------------------------------------------------------------------
(* Files, users and the external services' results *)

CurrentUser == "u1"

CsvFile == [name |-> <<"a", ".", "c", "s", "v">>, size |-> 2048]
JsonFile == [name |-> <<"b", ".", "J", "S", "O", "N">>, size |-> 4096]
Files == {CsvFile, JsonFile}

CsvAnalysis == [recordCount |-> 500, columns |-> <<"id", "name", "email">>,
                description |-> <<"J", "o", "b", "s">>]
JsonAnalysis == [recordCount |-> 0, columns |-> <<>>, description |-> <<>>]

\* the objects ai.generateObject may return for a file's content preview
AnalysisResults(file) == IF file = CsvFile THEN {CsvAnalysis} ELSE {JsonAnalysis}

UpperLetters == <<"C", "S", "V", "J", "O", "N", "X", "L", "B", "G", "H", "E", "P">>
LowerLetters == <<"c", "s", "v", "j", "o", "n", "x", "l", "b", "g", "h", "e", "p">>

\* String.prototype.toLowerCase, one character
LowerChar(c) ==
    IF \E i \in 1..Len(UpperLetters) : UpperLetters[i] = c
    THEN LowerLetters[CHOOSE i \in 1..Len(UpperLetters) : UpperLetters[i] = c]
    ELSE c

ToLowerCase(s) == [i \in 1..Len(s) |-> LowerChar(s[i])]

\* name.split('.').pop(): the text after the last dot, the whole name without one
LastSegment(name) ==
    LET dots == {i \in 1..Len(name) : name[i] = "."}
    IN  IF dots = {} THEN name
        ELSE LET last == CHOOSE i \in dots : \A j \in dots : j <= i
             IN  SubSeq(name, last + 1, Len(name))

\* handleFileUpload's file type detection
DetectType(name) ==
    LET fileType == ToLowerCase(LastSegment(name))
    IN  IF fileType = <<"j", "s", "o", "n">> THEN "json"
        ELSE IF fileType = <<"x", "l", "s", "x">> \/ fileType = <<"x", "l", "s">>
             THEN "excel"
        ELSE "csv"

\* the public URL storage.upload returns for `data-sources/${user.id}/${file.name}`
PublicUrl(user, name) == <<"data-sources", user, name>>

\* the newDataSource literal of handleFileUpload
NewDataSource(file, publicUrl, analysis, user, t) ==
    [ id          |-> <<"ds", t>>,
      name        |-> file.name,
      type        |-> DetectType(file.name),
      size        |-> file.size,
      uploadedAt  |-> <<"Date", t>>,
      status      |-> "ready",
      recordCount |-> Some(analysis.recordCount),
      columns     |-> Some(analysis.columns),
      description |-> Some(analysis.description),
      fileUrl     |-> Some(publicUrl),
      userId      |-> user ]

----------------------------------------------------------------------------
(* Persistence: JSON.stringify on save, JSON.parse and new Date on load *)

\* JSON.stringify: a Date becomes its ISO string
Stringify(sources) ==
    [i \in 1..Len(sources) |->
        [sources[i] EXCEPT !.uploadedAt = <<"iso", sources[i].uploadedAt[2]>>]]

\* JSON.parse(stored) without the map that revives uploadedAt
ParseStored_KeepsIso(items) == items

\* JSON.parse(stored).map(ds => ({...ds, uploadedAt: new Date(ds.uploadedAt)}))
ParseStored(items) ==
    [i \in 1..Len(items) |->
        [items[i] EXCEPT !.uploadedAt = <<"Date", items[i].uploadedAt[2]>>]]

NothingStored == [stored |-> FALSE, items |-> <<>>]
Stored(items) == [stored |-> TRUE, items |-> items]

\* the record an earlier session added, at tick 1
PriorRecord ==
    NewDataSource(CsvFile, PublicUrl(CurrentUser, CsvFile.name), CsvAnalysis,
                  CurrentUser, 1)

\* what earlier sessions can have left in storage: no entry, an empty
\* collection, or the record they added
PriorStorage ==
    {NothingStored, Stored(<<>>), Stored(Stringify(<<PriorRecord>>))}

\* the tick of this session's first Date.now()
FirstTick == PriorRecord.uploadedAt[2] + 1

Ids(sources) == {sources[i].id : i \in 1..Len(sources)}

\* Array.prototype.filter(ds => ds.id !== id)
RECURSIVE WithoutId(_, _)
WithoutId(sources, id) ==
    IF sources = <<>> THEN <<>>
    ELSE IF Head(sources).id = id THEN WithoutId(Tail(sources), id)
    ELSE <<Head(sources)>> \o WithoutId(Tail(sources), id)

AllIds == {<<"ds", t>> : t \in 1..(FirstTick + MaxAdds - 1)}

----------------------------------------------------------------------------
(* Initial state *)

InitCatalog ==
    /\ dataSources = <<>>
    /\ loading = TRUE
    /\ uploading = FALSE
    /\ searchQuery = <<>>
    /\ showUploadDialog = FALSE
    /\ persisted \in PriorStorage
    /\ addPc = "idle"
    /\ addFile = NoVal
    /\ addCaptured = <<>>
    /\ addNew = NoVal
    /\ addPersisted0 = NothingStored
    /\ pendingSaves = {}
    /\ now = FirstTick

InitChat ==
    /\ messages = <<>>
    /\ newMessage = <<>>
    /\ isAiTyping = FALSE
    /\ dataContent = [src |-> <<>>, len |-> 0]
    /\ pendingExtract = {}
    /\ pendingAI = {}
    /\ calls = 0
    /\ reply = NoVal

\* ChatWorkspace's useState initial values, the component not mounted
WorkspaceUnmounted ==
    /\ activeChannel = "general"
    /\ teamMessages = <<>>
    /\ teamNewMessage = <<>>
    /\ teamAiTyping = FALSE
    /\ mounted = FALSE
    /\ effects = <<>>
    /\ sends = <<>>
    /\ bus = {}
    /\ unhandled = 0
    /\ received = 0

\* no other tab of the user is open
NoOtherTabs == tabs = <<>>

\* what onAuthStateChanged hands to its callback (src/src/App.tsx:17-20)
AuthState(user, isLoading) == [user |-> user, isLoading |-> isLoading]

\* the shell after the sign-in of CurrentUser was notified, the page open at p
SignedInAt(p) ==
    /\ appUser = Some(CurrentUser)
    /\ appLoading = FALSE
    /\ path = p
    /\ authStates = <<AuthState(Some(CurrentUser), FALSE)>>

Init ==
    /\ InitCatalog /\ selected = NoVal /\ InitChat /\ WorkspaceUnmounted /\ NoOtherTabs
    /\ SignedInAt("/data-chat")

----------------------------------------------------------------------------
(* Data Source Catalog *)

addVars == <<addPc, addFile, addCaptured, addNew, addPersisted0>>

\* loadDataSources: auth.me() resolved, the entry read and parsed
LoadDataSourcesOk ==
    /\ loading
    /\ dataSources' = IF persisted.stored THEN ParseStored(persisted.items) ELSE <<>>
    /\ loading' = FALSE
    /\ UNCHANGED <<uploading, showUploadDialog, persisted, addVars, pendingSaves,
                   now, selected, chatVars, searchQuery, otherScreens>>

\* loadDataSources: auth.me(), getItem or JSON.parse threw
LoadDataSourcesFail ==
    /\ loading
    /\ loading' = FALSE
    /\ UNCHANGED <<dataSources, uploading, showUploadDialog, persisted, addVars,
                   pendingSaves, now, selected, chatVars, searchQuery, otherScreens>>

\* the dialog's onOpenChange and the "Upload Data" button
SetShowUploadDialog(open) ==
    /\ ~loading
    /\ showUploadDialog # open
    /\ showUploadDialog' = open
    /\ UNCHANGED <<dataSources, loading, uploading, persisted, addVars,
                   pendingSaves, now, selected, chatVars, searchQuery, otherScreens>>

\* the file input is rendered in the open dialog and disabled while uploading
FileInputEnabled == ~loading /\ showUploadDialog /\ ~uploading

\* handleFileUpload with no file chosen
HandleFileUploadNoFile ==
    /\ FileInputEnabled
    /\ UNCHANGED vars

\* handleFileUpload up to its first await
HandleFileUploadStart(file) ==
    /\ FileInputEnabled
    /\ now < FirstTick + MaxAdds
    /\ uploading' = TRUE
    /\ addPc' = "me"
    /\ addFile' = Some(file)
    /\ addCaptured' = dataSources
    /\ addPersisted0' = persisted
    /\ UNCHANGED <<dataSources, loading, showUploadDialog, persisted, addNew,
                   pendingSaves, now, selected, chatVars, searchQuery, otherScreens>>

NextAwait(pc) ==
    CASE pc = "me" -> "upload"
      [] pc = "upload" -> "extract"
      [] pc = "extract" -> "analyze"

\* auth.me(), storage.upload or data.extractFromBlob resolved
UploadAwaitResolved ==
    /\ addPc \in {"me", "upload", "extract"}
    /\ addPc' = NextAwait(addPc)
    /\ UNCHANGED <<dataSources, loading, uploading, showUploadDialog, persisted,
                   addFile, addCaptured, addNew, addPersisted0, pendingSaves, now,
                   selected, chatVars, searchQuery, otherScreens>>

\* what handleFileUpload's finally block and the end of the handler leave;
\* addPc then rests at "failed" or "done" and the next upload starts from there
UploadFinished(result) ==
    /\ uploading' = FALSE
    /\ addPc' = result
    /\ addFile' = NoVal
    /\ addCaptured' = <<>>
    /\ addNew' = NoVal
    /\ addPersisted0' = NothingStored

\* UploadAwaitRejected without the finally block's setUploading(false)
UploadAwaitRejected_KeepsUploading ==
    /\ addPc \in {"me", "upload", "extract", "analyze"}
    /\ addPc' = "failed"
    /\ addFile' = NoVal
    /\ addCaptured' = <<>>
    /\ addNew' = NoVal
    /\ addPersisted0' = NothingStored
    /\ UNCHANGED <<dataSources, loading, uploading, showUploadDialog, persisted,
                   pendingSaves, now, selected, chatVars, searchQuery, otherScreens>>

\* any of the four awaited calls rejected: catch, then finally
UploadAwaitRejected ==
    /\ addPc \in {"me", "upload", "extract", "analyze"}
    /\ UploadFinished("failed")
    /\ UNCHANGED <<dataSources, loading, showUploadDialog, persisted,
                   pendingSaves, now, selected, chatVars, searchQuery, otherScreens>>

\* ai.generateObject resolved: the record is built, prepended to the captured
\* collection, and saveDataSources is called
AnalysisResolved(analysis) ==
    /\ addPc = "analyze"
    /\ analysis \in AnalysisResults(Get(addFile))
    /\ LET file == Get(addFile)
           newDataSource == NewDataSource(file, PublicUrl(CurrentUser, file.name),
                                          analysis, CurrentUser, now)
           updatedSources == <<newDataSource>> \o addCaptured
       IN  /\ dataSources' = updatedSources
           /\ addNew' = Some(newDataSource)
           /\ pendingSaves' = pendingSaves \cup
                  {[op |-> "add", sources |-> updatedSources, absent |-> FALSE]}
    /\ addPc' = "save"
    /\ now' = now + 1
    /\ UNCHANGED <<loading, uploading, showUploadDialog, persisted, addFile,
                   addCaptured, addPersisted0, selected, chatVars, searchQuery, otherScreens>>

\* the rest of handleFileUpload once its saveDataSources call has returned
AfterSave(s) ==
    IF s.op = "add"
    THEN /\ showUploadDialog' = FALSE
         /\ selected' = addNew
         /\ UploadFinished("done")
    ELSE UNCHANGED <<showUploadDialog, selected, uploading, addVars>>

\* saveDataSources: auth.me() resolved and setItem wrote the entry
SaveDataSourcesOk(s) ==
    /\ s \in pendingSaves
    /\ persisted' = Stored(Stringify(s.sources))
    /\ pendingSaves' = pendingSaves \ {s}
    /\ AfterSave(s)
    /\ UNCHANGED <<dataSources, loading, now, chatVars, searchQuery, otherScreens>>

\* saveDataSources: auth.me() or setItem threw; the error is logged
SaveDataSourcesFail(s) ==
    /\ s \in pendingSaves
    /\ pendingSaves' = pendingSaves \ {s}
    /\ AfterSave(s)
    /\ UNCHANGED <<dataSources, loading, persisted, now, chatVars, searchQuery, otherScreens>>

SaveResolved == \E s \in pendingSaves : SaveDataSourcesOk(s)
SaveRejected == \E s \in pendingSaves : SaveDataSourcesFail(s)

\* deleteDataSource up to the await inside saveDataSources
DeleteDataSource(id) ==
    /\ ~loading
    /\ Cardinality(pendingSaves) < MaxPendingSaves
    /\ LET updatedSources == WithoutId(dataSources, id)
       IN  /\ dataSources' = updatedSources
           /\ pendingSaves' = pendingSaves \cup
                  {[op |-> "delete", sources |-> updatedSources,
                    absent |-> id \notin Ids(dataSources) \cup Ids(persisted.items)]}
    /\ UNCHANGED <<loading, uploading, showUploadDialog, persisted, addVars, now,
                   selected, chatVars, searchQuery, otherScreens>>

\* a click on a listed data source: onDataSourceSelect = setSelectedDataSource
SelectDataSource(i) ==
    /\ ~loading
    /\ i \in 1..Len(dataSources)
    /\ selected' = Some(dataSources[i])
    /\ UNCHANGED <<catalogVars, chatVars, otherScreens>>

Next ==
    \/ LoadDataSourcesOk
    \/ LoadDataSourcesFail
    \/ \E open \in BOOLEAN : SetShowUploadDialog(open)
    \/ HandleFileUploadNoFile
    \/ \E file \in Files : HandleFileUploadStart(file)
    \/ UploadAwaitResolved
    \/ UploadAwaitRejected
    \/ \E analysis \in {CsvAnalysis, JsonAnalysis} : AnalysisResolved(analysis)
    \/ SaveResolved
    \/ SaveRejected
    \/ \E id \in AllIds : DeleteDataSource(id)
    \/ \E i \in 1..Len(dataSources) : SelectDataSource(i)

Spec == Init /\ [][Next]_vars


----------------------------------------------------------------------------
(* Data Chat Surface *)

\* sendMessage's substring(0, 2000) and generateDataReport's substring(0, 3000)
AskSampleChars == 2000
ReportSampleChars == 3000

\* A text too long to spell out is the prefix of a source's content: where it
\* was extracted from and how many characters of it.
EmptyText == [src |-> NoVal, len |-> 0]

\* String.prototype.substring(0, n)
Substring(text, n) ==
    IF text.len <= n THEN text ELSE [src |-> text.src, len |-> n]

\* what data.extractFromUrl yields: one text, or an array of chunks (lengths)
ExtractResult(url) ==
    IF url = PublicUrl(CurrentUser, CsvFile.name)
    THEN [isArray |-> FALSE, lens |-> <<2500>>]
    ELSE [isArray |-> TRUE, lens |-> <<2000, 2000, 999>>]

RECURSIVE SumLens(_)
SumLens(lens) == IF lens = <<>> THEN 0 ELSE Head(lens) + SumLens(Tail(lens))

\* Array.isArray(content) ? content.join('\n') : content
JoinContent(url) ==
    LET content == ExtractResult(url)
    IN  [src |-> Some(url),
         len |-> IF content.isArray
                 THEN SumLens(content.lens) + Len(content.lens) - 1
                 ELSE content.lens[1]]

\* a source with no uploaded file, as the DataSource interface admits it
DatabaseSource ==
    [ id          |-> <<"ds", 0>>,
      name        |-> <<"d", "b">>,
      type        |-> "database",
      size        |-> 0,
      uploadedAt  |-> <<"Date", 0>>,
      status      |-> "ready",
      recordCount |-> NoVal,
      columns     |-> NoVal,
      description |-> NoVal,
      fileUrl     |-> NoVal,
      userId      |-> CurrentUser ]

JsonSource ==
    NewDataSource(JsonFile, PublicUrl(CurrentUser, JsonFile.name), JsonAnalysis,
                  CurrentUser, FirstTick)

\* the values the dataSource prop takes
ChatSources == {PriorRecord, JsonSource, DatabaseSource}

\* what the user types
Texts == {<<>>, <<" ">>, <<"h", "i">>}

\* the text ai.generateText returns for a request: one text per request
ReplyText(r) == [answerTo |-> r.call]

\* String.prototype.trim
RECURSIVE TrimStart(_)
TrimStart(s) == IF s # <<>> /\ Head(s) = " " THEN TrimStart(Tail(s)) ELSE s
RECURSIVE TrimEnd(_)
TrimEnd(s) ==
    IF s # <<>> /\ s[Len(s)] = " " THEN TrimEnd(SubSeq(s, 1, Len(s) - 1)) ELSE s
\* String.prototype.trim left out: the text as typed
Trim_KeepsSpaces(s) == s

Trim(s) == TrimEnd(TrimStart(s))

\* initializeChat's welcomeMessage: `recordCount?.toLocaleString() || 'unknown'`
\* and `columns?.length || 0`
WelcomeMessage(ds) ==
    [ type |-> "ai",
      content |-> [kind |-> "welcome",
                   name |-> ds.name,
                   records |-> IF IsSome(ds.recordCount)
                               THEN ToString(Get(ds.recordCount)) ELSE "unknown",
                   columns |-> IF IsSome(ds.columns) THEN Len(Get(ds.columns)) ELSE 0],
      dataSource |-> Some(ds),
      call |-> 0 ]

\* the dataset lines both prompts share: `recordCount || 'unknown'`,
\* `columns?.join(', ') || 'unknown'`
DatasetLines(ds) ==
    [ name |-> ds.name,
      type |-> ds.type,
      records |-> IF IsSome(ds.recordCount) /\ Get(ds.recordCount) # 0
                  THEN ToString(Get(ds.recordCount)) ELSE "unknown",
      columns |-> IF IsSome(ds.columns) /\ Get(ds.columns) # <<>>
                  THEN Get(ds.columns) ELSE <<"unknown">> ]

\* sendMessage's prompt
AskPrompt(ds, content, question) ==
    [ dataset |-> DatasetLines(ds),
      description |-> IF IsSome(ds.description) /\ Get(ds.description) # <<>>
                      THEN Get(ds.description) ELSE "No description",
      sample |-> Substring(content, AskSampleChars),
      question |-> question,
      maxTokens |-> 500 ]

\* generateDataReport's prompt
ReportPrompt(ds, content) ==
    [ dataset |-> DatasetLines(ds),
      sample |-> Substring(content, ReportSampleChars),
      maxTokens |-> 800 ]

UserMessage(text, call) ==
    [type |-> "user", content |-> [kind |-> "typed", text |-> text],
     dataSource |-> NoVal, call |-> call]

\* aiMessage of sendMessage and reportMessage of generateDataReport
GeneratedMessage(text, ds, call) ==
    [type |-> "ai", content |-> [kind |-> "generated", text |-> text],
     dataSource |-> Some(ds), call |-> call]

\* errorMessage of sendMessage
ApologyMessage(call) ==
    [type |-> "ai", content |-> [kind |-> "apology"],
     dataSource |-> NoVal, call |-> call]

\* loadDataContent up to its await: the extractFromUrl calls in flight after it
LoadDataContent(ds) ==
    IF IsSome(ds.fileUrl) THEN pendingExtract \cup {Get(ds.fileUrl)}
    ELSE pendingExtract

\* initializeChat appending its welcome message to the transcript
InitializeChat_Appends(ds) == Append(messages, WelcomeMessage(ds))

\* initializeChat: the transcript it sets
InitializeChat(ds) == <<WelcomeMessage(ds)>>

\* the dataSource prop changes (DataChat's setSelectedDataSource) and the
\* effect on [dataSource] runs
DataSourceChanged(ds) ==
    /\ selected # Some(ds)
    /\ selected' = Some(ds)
    /\ pendingExtract' = LoadDataContent(ds)
    /\ messages' = InitializeChat(ds)
    /\ UNCHANGED <<catalogVars, otherScreens, newMessage, isAiTyping, dataContent, pendingAI,
                   calls>>
    /\ UNCHANGED reply

\* extractFromUrl resolved: setDataContent
ExtractResolved(url) ==
    /\ url \in pendingExtract
    /\ pendingExtract' = pendingExtract \ {url}
    /\ dataContent' = JoinContent(url)
    /\ UNCHANGED <<catalogVars, otherScreens, selected, messages, newMessage, isAiTyping,
                   pendingAI, calls>>
    /\ UNCHANGED reply

\* extractFromUrl rejected: logged
ExtractRejected(url) ==
    /\ url \in pendingExtract
    /\ pendingExtract' = pendingExtract \ {url}
    /\ UNCHANGED <<catalogVars, otherScreens, selected, messages, newMessage, isAiTyping,
                   dataContent, pendingAI, calls>>
    /\ UNCHANGED reply

\* the input and the send button are rendered with a source selected and
\* disabled while the typing indicator shows
InputEnabled == IsSome(selected) /\ ~isAiTyping

\* the input's onChange
SetNewMessage(text) ==
    /\ InputEnabled
    /\ newMessage # text
    /\ newMessage' = text
    /\ UNCHANGED <<catalogVars, otherScreens, selected, messages, isAiTyping, dataContent,
                   pendingExtract, pendingAI, calls>>
    /\ UNCHANGED reply

\* sendMessage returning at its first line (Enter on a blank input)
SendMessageBlank ==
    /\ ~isAiTyping
    /\ Trim(newMessage) = <<>> \/ ~IsSome(selected)
    /\ UNCHANGED reply
    /\ UNCHANGED <<catalogVars, otherScreens, selected, messages, newMessage, isAiTyping,
                   dataContent, pendingExtract, pendingAI, calls>>

\* sendMessage up to its await
SendMessage ==
    /\ InputEnabled
    /\ Trim(newMessage) # <<>>
    /\ calls < MaxCalls
    /\ calls' = calls + 1
    /\ messages' = Append(messages, UserMessage(newMessage, calls + 1))
    /\ newMessage' = <<>>
    /\ isAiTyping' = TRUE
    /\ pendingAI' = pendingAI \cup
           {[call |-> calls + 1, kind |-> "ask", dataSource |-> Get(selected),
             prompt |-> AskPrompt(Get(selected), dataContent, newMessage)]}
    /\ UNCHANGED reply
    /\ UNCHANGED <<catalogVars, otherScreens, selected, dataContent, pendingExtract>>

\* sendMessage after generateText resolved
AskResolved(r) ==
    /\ r \in pendingAI /\ r.kind = "ask"
    /\ pendingAI' = pendingAI \ {r}
    /\ messages' = Append(messages, GeneratedMessage(ReplyText(r), r.dataSource, r.call))
    /\ isAiTyping' = FALSE
    /\ reply' = Some([ok |-> TRUE, text |-> ReplyText(r)])
    /\ UNCHANGED <<catalogVars, otherScreens, selected, newMessage, dataContent, pendingExtract,
                   calls>>

\* sendMessage's catch block without its errorMessage
AskRejected_Silent(r) ==
    /\ r \in pendingAI /\ r.kind = "ask"
    /\ pendingAI' = pendingAI \ {r}
    /\ isAiTyping' = FALSE
    /\ reply' = Some([ok |-> FALSE])
    /\ UNCHANGED <<catalogVars, otherScreens, selected, messages, newMessage, dataContent,
                   pendingExtract, calls>>

\* sendMessage after generateText rejected
AskRejected(r) ==
    /\ r \in pendingAI /\ r.kind = "ask"
    /\ pendingAI' = pendingAI \ {r}
    /\ messages' = Append(messages, ApologyMessage(r.call))
    /\ isAiTyping' = FALSE
    /\ reply' = Some([ok |-> FALSE])
    /\ UNCHANGED <<catalogVars, otherScreens, selected, newMessage, dataContent, pendingExtract,
                   calls>>

\* generateDataReport up to its await; its button is never disabled
GenerateDataReport ==
    /\ IsSome(selected)
    /\ calls < MaxCalls
    /\ calls' = calls + 1
    /\ isAiTyping' = TRUE
    /\ pendingAI' = pendingAI \cup
           {[call |-> calls + 1, kind |-> "report", dataSource |-> Get(selected),
             prompt |-> ReportPrompt(Get(selected), dataContent)]}
    /\ UNCHANGED <<catalogVars, otherScreens, selected, messages, newMessage, dataContent,
                   pendingExtract>>
    /\ UNCHANGED reply

\* generateDataReport after generateText resolved
ReportResolved(r) ==
    /\ r \in pendingAI /\ r.kind = "report"
    /\ pendingAI' = pendingAI \ {r}
    /\ messages' = Append(messages, GeneratedMessage(ReplyText(r), r.dataSource, r.call))
    /\ isAiTyping' = FALSE
    /\ reply' = Some([ok |-> TRUE, text |-> ReplyText(r)])
    /\ UNCHANGED <<catalogVars, otherScreens, selected, newMessage, dataContent, pendingExtract,
                   calls>>

\* generateDataReport's catch block with sendMessage's errorMessage
ReportRejected_Apologises(r) ==
    /\ r \in pendingAI /\ r.kind = "report"
    /\ pendingAI' = pendingAI \ {r}
    /\ messages' = Append(messages, ApologyMessage(r.call))
    /\ isAiTyping' = FALSE
    /\ reply' = Some([ok |-> FALSE])
    /\ UNCHANGED <<catalogVars, otherScreens, selected, newMessage, dataContent, pendingExtract,
                   calls>>

\* generateDataReport after generateText rejected: logged
ReportRejected(r) ==
    /\ r \in pendingAI /\ r.kind = "report"
    /\ pendingAI' = pendingAI \ {r}
    /\ isAiTyping' = FALSE
    /\ reply' = Some([ok |-> FALSE])
    /\ UNCHANGED <<catalogVars, otherScreens, selected, messages, newMessage, dataContent,
                   pendingExtract, calls>>

SelectionChanges == \E ds \in ChatSources : DataSourceChanged(ds)
ExtractionResolves == \E url \in pendingExtract : ExtractResolved(url)
ExtractionRejects == \E url \in pendingExtract : ExtractRejected(url)
UserTypes == \E text \in Texts : SetNewMessage(text)
AskResolves == \E r \in pendingAI : AskResolved(r)
AskRejects == \E r \in pendingAI : AskRejected(r)
ReportResolves == \E r \in pendingAI : ReportResolved(r)
ReportRejects == \E r \in pendingAI : ReportRejected(r)

\* the chat surface mounted beside a catalog that has finished loading
ChatInit ==
    /\ dataSources = <<>>
    /\ loading = FALSE
    /\ uploading = FALSE
    /\ searchQuery = <<>>
    /\ showUploadDialog = FALSE
    /\ persisted = NothingStored
    /\ addPc = "idle"
    /\ addFile = NoVal
    /\ addCaptured = <<>>
    /\ addNew = NoVal
    /\ addPersisted0 = NothingStored
    /\ pendingSaves = {}
    /\ now = FirstTick
    /\ selected = NoVal
    /\ InitChat
    /\ WorkspaceUnmounted
    /\ NoOtherTabs
    /\ SignedInAt("/data-chat")

ChatNext ==
    \/ SelectionChanges
    \/ ExtractionResolves
    \/ ExtractionRejects
    \/ UserTypes
    \/ SendMessageBlank
    \/ SendMessage
    \/ AskResolves
    \/ AskRejects
    \/ GenerateDataReport
    \/ ReportResolves
    \/ ReportRejects

ChatSpec == ChatInit /\ [][ChatNext]_vars

----------------------------------------------------------------------------
(* Steps of add, told from the handler's position before and after *)

AwaitedCalls == {"me", "upload", "extract", "analyze"}

\* a step in which one of add's four awaited calls rejects
AddAborts == addPc \in AwaitedCalls /\ addPc' = "failed"

\* the step in which add builds its record from the analysis result
AddBuildsRecord == addPc = "analyze" /\ addPc' = "save"

\* the step in which add's saveDataSources call returns and the handler ends
AddCompletes == addPc = "save" /\ addPc' = "done"

PopulatedReady(r) ==
    /\ r.status = "ready"
    /\ IsSome(r.recordCount)
    /\ IsSome(r.columns)
    /\ IsSome(r.description)
    /\ IsSome(r.fileUrl)

----------------------------------------------------------------------------
(* C1: every add whose upload, extraction and analysis succeed leaves the   *)
(* persisted collection one element longer than it was when the add began,  *)
(* the new record first and the records persisted then following in order.  *)
C1_AddGrowsPersistedByOne ==
    [][AddCompletes =>
         persisted'.items = Stringify(<<Get(addNew)>>) \o addPersisted0.items]_vars

(* C2: when the save of a remove(id) whose id was in neither the in-memory  *)
(* nor the persisted collection returns, the persisted collection is what   *)
(* it was before.                                                           *)
C2_RemoveAbsentKeepsPersisted ==
    [][\A s \in pendingSaves :
          (s.op = "delete" /\ s.absent /\ s \notin pendingSaves')
              => persisted'.items = persisted.items]_vars

(* C3: when a step of add fails, the in-memory collection, the persisted    *)
(* collection and the selection are unchanged and uploading is cleared; and *)
(* every persisted record is 'ready' with recordCount, columns, description *)
(* and fileUrl populated.                                                   *)
C3_FailedAddCreatesNothing ==
    /\ [][AddAborts =>
            /\ dataSources' = dataSources
            /\ persisted' = persisted
            /\ selected' = selected
            /\ ~uploading']_vars
    /\ [](\A i \in 1..Len(persisted.items) : PopulatedReady(persisted.items[i]))

\* an add has aborted with records in memory and in storage
C3_Witness ==
    /\ addPc = "failed"
    /\ ~uploading
    /\ dataSources # <<>>
    /\ persisted.items # <<>>

(* C4: a successful add builds a 'ready' record with recordCount, columns   *)
(* and description from the analysis result, fileUrl the upload's public    *)
(* URL and userId the signed-in user; prepends it to the in-memory          *)
(* collection; persists the whole collection; and makes it the selection.   *)
C4_SuccessfulAdd ==
    [][/\ AddBuildsRecord =>
            /\ dataSources' # <<>>
            /\ LET new == Head(dataSources')
                   file == Get(addFile)
               IN  /\ new.status = "ready"
                   /\ \E a \in AnalysisResults(file) :
                         /\ new.recordCount = Some(a.recordCount)
                         /\ new.columns = Some(a.columns)
                         /\ new.description = Some(a.description)
                   /\ new.fileUrl = Some(PublicUrl(CurrentUser, file.name))
                   /\ new.userId = CurrentUser
            /\ Tail(dataSources') = dataSources
       /\ AddCompletes =>
            /\ persisted' = Stored(Stringify(dataSources'))
            /\ Head(dataSources') = Get(addNew)
            /\ selected' = addNew]_vars

----------------------------------------------------------------------------
(* Steps of ask and report, told from the calls in flight before and after *)

\* a step that issues the completion request of an ask
AskIssued == \E r \in pendingAI' \ pendingAI : r.kind = "ask"

\* a step that delivers the reply to request r
Replied(r) == r \in pendingAI /\ r \notin pendingAI'

\* the step appends exactly one message, of this type and content
AppendsOne(type, content) ==
    /\ Len(messages') = Len(messages) + 1
    /\ SubSeq(messages', 1, Len(messages)) = messages
    /\ messages'[Len(messages')].type = type
    /\ messages'[Len(messages')].content = content

HasNoFile(r) == ~IsSome(r.dataSource.fileUrl)

(* C5: every change of the selected source leaves the transcript holding    *)
(* exactly one message, of type 'ai', that names the newly selected source. *)
C5_SwitchResetsTranscript ==
    [][selected' # selected =>
         /\ Len(messages') = 1
         /\ messages'[1].type = "ai"
         /\ messages'[1].content.kind = "welcome"
         /\ messages'[1].content.name = Get(selected').name]_vars

\* the transcript was reset while an ask for another source was in flight
C5_Witness ==
    /\ IsSome(selected)
    /\ Len(messages) = 1
    /\ \E r \in pendingAI : r.kind = "ask" /\ r.dataSource # Get(selected)

(* C6: a question asked while the selected source has no fileUrl is sent    *)
(* with an empty content sample, and its reply is appended as an AI message.*)
C6_NoFileUrlEmptySample ==
    [][/\ \A r \in pendingAI' \ pendingAI :
            (r.kind = "ask" /\ HasNoFile(r)) => r.prompt.sample = EmptyText
       /\ \A r \in pendingAI :
            (r.kind = "ask" /\ HasNoFile(r) /\ Replied(r)) =>
                /\ Len(messages') = Len(messages) + 1
                /\ messages'[Len(messages')].type = "ai"]_vars

(* C7: the content sample of every prompt sent is empty or was extracted    *)
(* from the file of the source the prompt is about.                         *)
C7_SampleOfSelectedSource ==
    \A r \in pendingAI :
        \/ r.prompt.sample = EmptyText
        \/ r.prompt.sample.src = r.dataSource.fileUrl

(* C8: an ask appends the user message in the step that issues its one      *)
(* completion request; the reply appends exactly one AI message, the        *)
(* returned text on success and the apology on failure, issues no further   *)
(* request and clears the typing indicator.                                 *)
C8_AskAppendsOneReply ==
    [][/\ AskIssued =>
            /\ AppendsOne("user", [kind |-> "typed", text |-> newMessage])
            /\ Trim(newMessage) # <<>>
            /\ pendingAI \subseteq pendingAI'
            /\ Cardinality(pendingAI' \ pendingAI) = 1
       /\ \A r \in pendingAI :
            (r.kind = "ask" /\ Replied(r)) =>
                /\ pendingAI' = pendingAI \ {r}
                /\ calls' = calls
                /\ ~isAiTyping'
                /\ IsSome(reply')
                /\ IF Get(reply').ok
                   THEN AppendsOne("ai", [kind |-> "generated",
                                          text |-> Get(reply').text])
                   ELSE AppendsOne("ai", [kind |-> "apology"])]_vars

\* one ask was answered and another apologised for
C8_Witness ==
    /\ pendingAI = {}
    /\ ~isAiTyping
    /\ \E i, j, k \in 1..Len(messages) :
         /\ messages[i].type = "user"
         /\ messages[j].content.kind = "generated"
         /\ messages[j].call = messages[i].call
         /\ messages[k].content.kind = "apology"

(* C9: a failed report leaves the transcript unchanged, issues no further   *)
(* request and clears the typing indicator; a successful one appends        *)
(* exactly one AI message with the report text.                             *)
C9_ReportDroppedOnFailure ==
    [][\A r \in pendingAI :
         (r.kind = "report" /\ Replied(r)) =>
             /\ pendingAI' = pendingAI \ {r}
             /\ calls' = calls
             /\ ~isAiTyping'
             /\ IsSome(reply')
             /\ IF Get(reply').ok
                THEN AppendsOne("ai", [kind |-> "generated",
                                       text |-> Get(reply').text])
                ELSE messages' = messages]_vars

\* one report was appended and a later one failed without a trace
C9_Witness ==
    /\ pendingAI = {}
    /\ calls = 2
    /\ reply = Some([ok |-> FALSE])
    /\ Len(messages) = 2
    /\ messages[2].content.kind = "generated"

(* C10: in the transcript no message of an earlier call follows the AI      *)
(* reply of a later call.                                                   *)
C10_RepliesInCallOrder ==
    \A i, j \in 1..Len(messages) :
        (i < j /\ messages[i].type = "ai" /\ messages[i].call > 0
               /\ messages[j].call > 0)
            => messages[i].call <= messages[j].call

(* C11: every change of the selected source leaves the typing indicator    *)
(* cleared, also when the completion of an ask or report is still pending.  *)
C11_SwitchClearsTyping ==
    [][selected' # selected => ~isAiTyping']_vars

----------------------------------------------------------------------------
(* Search of the catalog: the list DataSourceManager renders *)

\* listed records of one state of the search screen
MaxListed == 2

\* String.prototype.includes: q occurs in s as a contiguous piece
Includes(s, q) ==
    \E i \in 0..(Len(s) - Len(q)) : SubSeq(s, i + 1, i + Len(q)) = q

\* the filter predicate with the name as the only field searched
Matches_NameOnly(ds, query) ==
    Includes(ToLowerCase(ds.name), ToLowerCase(query))

\* the predicate of filteredDataSources: `description?.` is falsy when absent
Matches(ds, query) ==
    \/ Includes(ToLowerCase(ds.name), ToLowerCase(query))
    \/ /\ IsSome(ds.description)
       /\ Includes(ToLowerCase(Get(ds.description)), ToLowerCase(query))

\* dataSources.filter(...) of the current render
FilteredDataSources ==
    SelectSeq(dataSources, LAMBDA ds : Matches(ds, searchQuery))

\* a record whose name is in upper case and whose description is in lower case
LogFile == [name |-> <<"L", "O", "G">>, size |-> 10]
LogAnalysis == [recordCount |-> 3, columns |-> <<"x">>,
                description |-> <<"c", "s", "v", " ", "x">>]
LogSource ==
    NewDataSource(LogFile, PublicUrl(CurrentUser, LogFile.name), LogAnalysis,
                  CurrentUser, FirstTick + 1)

\* the records a user's storage entry can hold
ListedSources == {PriorRecord, JsonSource, LogSource, DatabaseSource}

\* the collections a finished load can leave in memory: distinct records
Collections ==
    UNION {{c \in [1..n -> ListedSources] :
               \A i, j \in 1..n : i # j => c[i] # c[j]} : n \in 0..MaxListed}

\* what the user types into the search box
Queries ==
    { <<>>, <<"z">>, <<"c", "S">>, <<"j", "s">>, <<"J", "O", "B">>,
      <<"l", "o", "g">>, <<"a", ".", "c", "s", "v", "x">> }

\* the search box's onChange
SetSearchQuery(query) ==
    /\ ~loading
    /\ searchQuery # query
    /\ searchQuery' = query
    /\ UNCHANGED <<dataSources, loading, uploading, showUploadDialog, persisted,
                   addVars, pendingSaves, now, selected, chatVars, otherScreens>>

UserSearches == \E query \in Queries : SetSearchQuery(query)

\* the catalog after a load that found the collection in storage
SearchInit ==
    /\ dataSources \in Collections
    /\ persisted = Stored(Stringify(dataSources))
    /\ loading = FALSE
    /\ uploading = FALSE
    /\ searchQuery = <<>>
    /\ showUploadDialog = FALSE
    /\ addPc = "idle"
    /\ addFile = NoVal
    /\ addCaptured = <<>>
    /\ addNew = NoVal
    /\ addPersisted0 = NothingStored
    /\ pendingSaves = {}
    /\ now = FirstTick + MaxListed
    /\ selected = NoVal
    /\ InitChat
    /\ WorkspaceUnmounted
    /\ NoOtherTabs
    /\ SignedInAt("/data-chat")

SearchNext == UserSearches

SearchSpec == SearchInit /\ [][SearchNext]_vars

----------------------------------------------------------------------------
(* What a case-insensitive substring match is, said without toLowerCase *)

\* two characters are the same letter, whatever their case
SameLetter(c, d) ==
    \/ c = d
    \/ \E i \in 1..Len(UpperLetters) : {c, d} = {UpperLetters[i], LowerLetters[i]}

\* q occurs in s letter for letter, whatever the case
ContainsIgnoringCase(s, q) ==
    \E i \in 0..(Len(s) - Len(q)) :
        \A k \in 1..Len(q) : SameLetter(s[i + k], q[k])

\* the record's name or its description, if it has one, contains the query
NameOrDescriptionContains(ds, q) ==
    \/ ContainsIgnoringCase(ds.name, q)
    \/ IsSome(ds.description) /\ ContainsIgnoringCase(Get(ds.description), q)

\* the positions of the collection whose record matches the search query
MatchingPositions ==
    {i \in 1..Len(dataSources) : NameOrDescriptionContains(dataSources[i], searchQuery)}

\* the k-th smallest element of a set of positions
Nth(positions, k) ==
    CHOOSE i \in positions : Cardinality({j \in positions : j <= i}) = k

(* C12: the list shown for a query holds exactly the records of the         *)
(* collection whose name or description contains the query ignoring case,   *)
(* in the collection's order (none when nothing matches; a record without   *)
(* description is matched on its name), and typing a query changes neither  *)
(* the in-memory nor the persisted collection.                              *)
C12_SearchMatchesNameOrDescription ==
    /\ [](/\ Len(FilteredDataSources) = Cardinality(MatchingPositions)
          /\ \A k \in 1..Len(FilteredDataSources) :
                FilteredDataSources[k] = dataSources[Nth(MatchingPositions, k)])
    /\ [][searchQuery' # searchQuery =>
            dataSources' = dataSources /\ persisted' = persisted]_vars

\* a query in another case than the text it matches lists the record matched
\* by its description alone, and leaves out a record without description
C12_Witness ==
    /\ searchQuery = <<"J", "O", "B">>
    /\ FilteredDataSources = <<PriorRecord>>
    /\ Len(dataSources) = 2
    /\ dataSources[1] = DatabaseSource

----------------------------------------------------------------------------
(* The catalog with the promise of loadDataSources' auth.me() settling *)

LoadSettles == WF_vars(LoadDataSourcesOk \/ LoadDataSourcesFail)

LoadSpec == Spec /\ LoadSettles

\* the step in which loadDataSources ends
LoadEnds == loading /\ ~loading'

(* C13: when load ends, the in-memory collection is the persisted           *)
(* collection in stored order with its dates revived, or is empty (nothing  *)
(* stored, or the lookup, read or parse failed); nothing else of the        *)
(* catalog changes; and the loading flag is eventually cleared.             *)
C13_LoadSetsCollectionOrEmpty ==
    /\ [][LoadEnds =>
            /\ \/ dataSources' = <<>>
               \/ /\ persisted.stored
                  /\ Stringify(dataSources') = persisted.items
                  /\ \A i \in 1..Len(dataSources') :
                        dataSources'[i].uploadedAt[1] = "Date"
            /\ ~persisted.stored => dataSources' = <<>>
            /\ UNCHANGED <<uploading, showUploadDialog, persisted, addVars,
                           pendingSaves, selected>>]_vars
    /\ <>(~loading)

\* the load has ended with the stored record in memory, its date revived
C13_Witness ==
    /\ ~loading
    /\ addPc = "idle"
    /\ persisted.items # <<>>
    /\ dataSources = ParseStored(persisted.items)
    /\ dataSources[1].uploadedAt # persisted.items[1].uploadedAt

----------------------------------------------------------------------------
(* Two catalogs of one user in two browser tabs, over one storage entry.   *)
(* Each tab holds its own copy of DataSourceManager's collection; a tab    *)
(* starts its next add or remove when the save of its last one returned.   *)

\* adds and removes one tab performs in one run
MaxTabOps == 1

TabIds == {1, 2}

\* a tab's catalog once its load has ended with this collection
LoadedTab(sources) ==
    [dataSources |-> sources, pendingSave |-> NoVal, lastSave |-> "none", ops |-> 0]

\* the storage entry both tabs loaded
SharedStorage == {Stored(<<>>), Stored(Stringify(<<PriorRecord>>))}

TabsInit ==
    /\ persisted \in SharedStorage
    /\ tabs = [t \in TabIds |-> LoadedTab(ParseStored(persisted.items))]
    /\ dataSources = <<>>
    /\ loading = FALSE
    /\ uploading = FALSE
    /\ searchQuery = <<>>
    /\ showUploadDialog = FALSE
    /\ addPc = "idle"
    /\ addFile = NoVal
    /\ addCaptured = <<>>
    /\ addNew = NoVal
    /\ addPersisted0 = NothingStored
    /\ pendingSaves = {}
    /\ now = FirstTick
    /\ selected = NoVal
    /\ InitChat
    /\ WorkspaceUnmounted
    /\ SignedInAt("/data-chat")

tabFrame == <<dataSources, loading, uploading, searchQuery, showUploadDialog,
              addVars, pendingSaves, selected, chatVars, workspaceVars, shellVars>>

TabIdle(t) == tabs[t].pendingSave = NoVal /\ tabs[t].ops < MaxTabOps

\* the tab's in-memory collection is replaced and saveDataSources is called
TabCallsSave(t, updatedSources) ==
    tabs' = [tabs EXCEPT ![t] = [dataSources |-> updatedSources,
                                 pendingSave |-> Some(updatedSources),
                                 lastSave    |-> @.lastSave,
                                 ops         |-> @.ops + 1]]

\* handleFileUpload in tab t, from the analysis result to the call of
\* saveDataSources
TabHandleFileUpload(t, file) ==
    /\ TabIdle(t)
    /\ \E analysis \in AnalysisResults(file) :
          TabCallsSave(t, <<NewDataSource(file, PublicUrl(CurrentUser, file.name),
                                          analysis, CurrentUser, now)>>
                          \o tabs[t].dataSources)
    /\ now' = now + 1
    /\ UNCHANGED <<persisted, tabFrame>>

\* deleteDataSource in tab t, from a listed record's delete button
TabDeleteDataSource(t, id) ==
    /\ TabIdle(t)
    /\ id \in Ids(tabs[t].dataSources)
    /\ TabCallsSave(t, WithoutId(tabs[t].dataSources, id))
    /\ UNCHANGED <<persisted, now, tabFrame>>

TabSaveReturns(t, outcome) ==
    tabs' = [tabs EXCEPT ![t].pendingSave = NoVal, ![t].lastSave = outcome]

\* saveDataSources writing the saved collection behind the stored records
\* it does not hold
TabSaveDataSourcesOk_Merges(t) ==
    /\ IsSome(tabs[t].pendingSave)
    /\ LET sources == Get(tabs[t].pendingSave)
           kept == SelectSeq(persisted.items, LAMBDA r : r.id \notin Ids(sources))
       IN  persisted' = Stored(Stringify(sources) \o kept)
    /\ TabSaveReturns(t, "written")
    /\ UNCHANGED <<now, tabFrame>>

\* saveDataSources in tab t: setItem overwrites the entry
TabSaveDataSourcesOk(t) ==
    /\ IsSome(tabs[t].pendingSave)
    /\ persisted' = Stored(Stringify(Get(tabs[t].pendingSave)))
    /\ TabSaveReturns(t, "written")
    /\ UNCHANGED <<now, tabFrame>>

\* saveDataSources in tab t: auth.me() or setItem threw
TabSaveDataSourcesFail(t) ==
    /\ IsSome(tabs[t].pendingSave)
    /\ TabSaveReturns(t, "failed")
    /\ UNCHANGED <<persisted, now, tabFrame>>

TabAdds == \E t \in TabIds, file \in Files : TabHandleFileUpload(t, file)
TabRemoves ==
    \E t \in TabIds : \E id \in Ids(tabs[t].dataSources) : TabDeleteDataSource(t, id)
TabSaveResolves == \E t \in TabIds : TabSaveDataSourcesOk(t)
TabSaveRejects == \E t \in TabIds : TabSaveDataSourcesFail(t)

TabsNext ==
    \/ TabAdds
    \/ TabRemoves
    \/ TabSaveResolves
    \/ TabSaveRejects

TabsSpec == TabsInit /\ [][TabsNext]_vars

\* the step in which a save of tab t writes the storage entry
TabWrites(t) ==
    /\ IsSome(tabs[t].pendingSave)
    /\ tabs'[t].pendingSave = NoVal
    /\ tabs'[t].lastSave = "written"

(* C14: every write of a tab leaves the persisted collection equal to that  *)
(* tab's whole in-memory collection, whatever the entry held and whatever   *)
(* the other tab has in memory: the last writer wins.                       *)
C14_LastWriterWins ==
    [][\A t \in TabIds :
          TabWrites(t) => persisted' = Stored(Stringify(tabs'[t].dataSources))]_vars

\* both tabs added a record and wrote it; the record of tab 1 is lost
C14_Witness ==
    /\ \A t \in TabIds : tabs[t].lastSave = "written" /\ tabs[t].pendingSave = NoVal
    /\ Len(tabs[1].dataSources) = Len(tabs[2].dataSources)
    /\ persisted.items = Stringify(tabs[2].dataSources)
    /\ tabs[1].dataSources # <<>>
    /\ tabs[1].dataSources[1].id \notin Ids(persisted.items)

----------------------------------------------------------------------------
(* Team chat (ChatWorkspace): the effect on [activeChannel] with its        *)
(* realtime subscription, sendMessage with its publish, its two timers and  *)
(* its completion call, and the realtime events handed to the callbacks.    *)
(* After teardown React drops the component's state updates: its timers,   *)
(* promises and callbacks change nothing any more and their steps are left  *)
(* out; a subscribe call still in flight is followed to its end.            *)

\* channel changes, sendMessage calls and other users' events in one run
MaxSwitches == 2
MaxSends == 1
MaxEvents == 1

\* initializeChannels: the channel ids
Channels == <<"general", "kyc-team", "mdm-team", "ai-insights">>

\* the channels the user clicks
ClickedChannels == {Channels[1], Channels[2]}

\* one topic for every channel
Topic_Shared(channel) == <<"chat-", Channels[1]>>

\* the topic `chat-${activeChannel}`
Topic(channel) == <<"chat-", channel>>

TeamMessage(id, content, userId, userName, timestamp, type) ==
    [id |-> id, content |-> content, userId |-> userId, userName |-> userName,
     timestamp |-> timestamp, type |-> type]

\* loadMessages' sampleMessages: timestamps are minutes before Date.now()
SampleMessages ==
    << TeamMessage(<<"id", 1>>, <<"sample 1">>, "user1", "Sarah Johnson", <<"ago", 60>>, "user"),
       TeamMessage(<<"id", 2>>, <<"sample 2">>, "ai", "AI Assistant", <<"ago", 55>>, "ai"),
       TeamMessage(<<"id", 3>>, <<"sample 3">>, "user2", "Mike Chen", <<"ago", 50>>, "user"),
       TeamMessage(<<"id", 4>>, <<"sample 4">>, "ai", "AI Assistant", <<"ago", 45>>, "ai") >>

\* loadMessages: the transcript it sets
LoadMessages == SampleMessages

\* the signed-in user: user.id and user.displayName || user.email
TeamUser == [id |-> CurrentUser, displayName |-> "Steward"]

\* what the user types into the message box
TeamTexts == {<<" ">>, <<"o", "k">>, <<"H", "e", "L", "P">>}

\* the keyword test on the text as typed, without toLowerCase
HasKeyword_CaseSensitive(text) ==
    \/ Includes(text, <<"a", "i">>)
    \/ Includes(text, <<"a", "n", "a", "l", "y", "z", "e">>)
    \/ Includes(text, <<"h", "e", "l", "p">>)

\* the keyword test of sendMessage
HasKeyword(text) ==
    \/ Includes(ToLowerCase(text), <<"a", "i">>)
    \/ Includes(ToLowerCase(text), <<"a", "n", "a", "l", "y", "z", "e">>)
    \/ Includes(ToLowerCase(text), <<"h", "e", "l", "p">>)

\* sendMessage's tempMessage; k stands for Date.now() of the k-th send
TempMessage(text, k) ==
    TeamMessage(<<"now", k>>, text, TeamUser.id, TeamUser.displayName, <<"now", k>>, "user")

\* the text generateText returns for a user message
CompletionText(userMessage) == <<"reply to">> \o userMessage

FallbackText == <<"I'm here to help with your data stewardship tasks!">>

\* generateAIResponse with the error of generateText passed on
GenerateAIResponse_NoCatch(ok, userMessage) ==
    IF ok THEN [threw |-> FALSE, text |-> CompletionText(userMessage)]
    ELSE [threw |-> TRUE, text |-> <<>>]

\* generateAIResponse with an empty text in its catch block
GenerateAIResponse_EmptyFallback(ok, userMessage) ==
    IF ok THEN [threw |-> FALSE, text |-> CompletionText(userMessage)]
    ELSE [threw |-> FALSE, text |-> <<>>]

\* generateAIResponse: the text of generateText, the fallback when it throws
GenerateAIResponse(ok, userMessage) ==
    IF ok THEN [threw |-> FALSE, text |-> CompletionText(userMessage)]
    ELSE [threw |-> FALSE, text |-> FallbackText]

\* the aiMessage of the delayed callback
AiMessage(content, k) ==
    TeamMessage(<<"now+1", k>>, content, "ai", "AI Assistant", <<"now", k>>, "ai")

\* the realtime message the service hands out for the k-th publish
EchoEvent(k) ==
    [ id |-> <<"srv", k>>, type |-> "chat", topic |-> sends[k].topic,
      content |-> sends[k].text, dataType |-> Some("user"),
      userId |-> TeamUser.id, displayName |-> Some(TeamUser.displayName) ]

\* realtime messages of other users: a chat message without metadata and
\* data.type, and a presence notice
ForeignEvents(topic) ==
    { [ id |-> <<"srv", 7>>, type |-> "chat", topic |-> topic,
        content |-> <<"y", "o">>, dataType |-> NoVal,
        userId |-> "u2", displayName |-> NoVal ],
      [ id |-> <<"srv", 9>>, type |-> "presence", topic |-> topic,
        content |-> <<>>, dataType |-> NoVal,
        userId |-> "u2", displayName |-> Some("Mike Chen") ] }

\* the subscribe callback: the messages one call of it appends
OnRealtimeMessage(message) ==
    IF message.type = "chat"
    THEN << TeamMessage(message.id, message.content, message.userId,
                        IF IsSome(message.displayName)
                        THEN Get(message.displayName) ELSE "Unknown User",
                        <<"srv", message.id[2]>>,
                        IF IsSome(message.dataType)
                        THEN Get(message.dataType) ELSE "user") >>
    ELSE <<>>

\* the effect runs whose subscription is live on a topic
LiveOn(topic) ==
    {i \in 1..Len(effects) : effects[i].sub = "live" /\ effects[i].topic = topic}

RECURSIVE Copies(_, _)
Copies(n, msgs) == IF n = 0 THEN <<>> ELSE msgs \o Copies(n - 1, msgs)

\* setMessages(prev => [...prev, ...])
AppendToTranscript(msgs) == teamMessages' = teamMessages \o msgs

\* the service hands a message to every callback subscribed to its topic
HandOut(message) ==
    AppendToTranscript(Copies(Cardinality(LiveOn(message.topic)),
                              OnRealtimeMessage(message)))

\* a new run of the effect: subscribe is called and awaited
EffectRun(run, channel) ==
    [run |-> run, topic |-> Topic(channel), sub |-> "subscribing", cleaned |-> FALSE]

\* the effect's cleanup for its latest run: unsubscribe() is called if the
\* run's subscribe has resolved; a run with nothing left to happen is dropped
Cleanup ==
    LET n == Len(effects)
        last == effects[n]
    IN  IF last.sub = "subscribing"
        THEN [effects EXCEPT ![n].cleaned = TRUE]
        ELSE SubSeq(effects, 1, n - 1)

dataChatFrame == <<catalogVars, selected, chatVars, tabs, shellVars>>

\* the component mounted: useState's initial values and the effect's first run
TeamInit ==
    /\ activeChannel = Channels[1]
    /\ teamMessages = LoadMessages
    /\ teamNewMessage = <<>>
    /\ teamAiTyping = FALSE
    /\ mounted = TRUE
    /\ effects = <<EffectRun(1, Channels[1])>>
    /\ sends = <<>>
    /\ bus = {}
    /\ unhandled = 0
    /\ received = 0
    /\ dataSources = <<>>
    /\ loading = FALSE
    /\ uploading = FALSE
    /\ searchQuery = <<>>
    /\ showUploadDialog = FALSE
    /\ persisted = NothingStored
    /\ addPc = "idle"
    /\ addFile = NoVal
    /\ addCaptured = <<>>
    /\ addNew = NoVal
    /\ addPersisted0 = NothingStored
    /\ pendingSaves = {}
    /\ now = FirstTick
    /\ selected = NoVal
    /\ InitChat
    /\ NoOtherTabs
    /\ SignedInAt("/chat")

\* a click on another channel: the cleanup of the last run, then the effect
SetActiveChannel(channel) ==
    /\ mounted
    /\ channel # activeChannel
    /\ effects[Len(effects)].run <= MaxSwitches
    /\ activeChannel' = channel
    /\ teamMessages' = LoadMessages
    /\ effects' = Append(Cleanup, EffectRun(effects[Len(effects)].run + 1, channel))
    /\ UNCHANGED <<teamNewMessage, teamAiTyping, mounted, sends, bus, unhandled,
                   received, dataChatFrame>>

\* the component is torn down: the cleanup of the last run
Unmount ==
    /\ mounted
    /\ mounted' = FALSE
    /\ effects' = Cleanup
    /\ UNCHANGED <<activeChannel, teamMessages, teamNewMessage, teamAiTyping,
                   sends, bus, unhandled, received, dataChatFrame>>

\* realtime.subscribe resolved: the run's unsubscribe is assigned
SubscribeResolved(i) ==
    /\ effects[i].sub = "subscribing"
    /\ effects' = [effects EXCEPT ![i].sub = "live"]
    /\ UNCHANGED <<activeChannel, teamMessages, teamNewMessage, teamAiTyping,
                   mounted, sends, bus, unhandled, received, dataChatFrame>>

\* realtime.subscribe rejected: logged
SubscribeRejected(i) ==
    /\ effects[i].sub = "subscribing"
    /\ effects' = IF effects[i].cleaned
                  THEN SubSeq(effects, 1, i - 1) \o SubSeq(effects, i + 1, Len(effects))
                  ELSE [effects EXCEPT ![i].sub = "failed"]
    /\ UNCHANGED <<activeChannel, teamMessages, teamNewMessage, teamAiTyping,
                   mounted, sends, bus, unhandled, received, dataChatFrame>>

\* the message box's onChange, while the user has a message left to send
SetTeamNewMessage(text) ==
    /\ mounted
    /\ Len(sends) < MaxSends
    /\ teamNewMessage # text
    /\ teamNewMessage' = text
    /\ UNCHANGED <<activeChannel, teamMessages, teamAiTyping, mounted, effects,
                   sends, bus, unhandled, received, dataChatFrame>>

\* sendMessage returning at its first line
TeamSendMessageBlank ==
    /\ mounted
    /\ Trim(teamNewMessage) = <<>>
    /\ UNCHANGED vars

\* sendMessage up to its await of realtime.publish
TeamSendMessage ==
    /\ mounted
    /\ Trim(teamNewMessage) # <<>>
    /\ Len(sends) < MaxSends
    /\ teamMessages' = Append(teamMessages, TempMessage(teamNewMessage, Len(sends) + 1))
    /\ sends' = Append(sends, [text |-> teamNewMessage, topic |-> Topic(activeChannel),
                               stage |-> "publish", completion |-> "none"])
    /\ UNCHANGED <<activeChannel, teamNewMessage, teamAiTyping, mounted, effects,
                   bus, unhandled, received, dataChatFrame>>

\* realtime.publish resolved: the input is cleared and, for a keyword
\* message, the 500ms timer is set; the service has the message to hand out
PublishResolved(k) ==
    /\ mounted
    /\ sends[k].stage = "publish"
    /\ sends' = [sends EXCEPT ![k].stage =
                    IF HasKeyword(sends[k].text) THEN "delay500" ELSE "quiet"]
    /\ teamNewMessage' = <<>>
    /\ bus' = IF LiveOn(sends[k].topic) # {} THEN bus \cup {EchoEvent(k)} ELSE bus
    /\ UNCHANGED <<activeChannel, teamMessages, teamAiTyping, mounted, effects,
                   unhandled, received, dataChatFrame>>

\* PublishRejected with the setNewMessage('') of the path without an error
PublishRejected_ClearsInput(k) ==
    /\ mounted
    /\ sends[k].stage = "publish"
    /\ sends' = [sends EXCEPT ![k].stage = "failed"]
    /\ teamNewMessage' = <<>>
    /\ UNCHANGED <<activeChannel, teamMessages, teamAiTyping,
                   mounted, effects, bus, unhandled, received, dataChatFrame>>

\* realtime.publish rejected: sendMessage's catch logs
PublishRejected(k) ==
    /\ mounted
    /\ sends[k].stage = "publish"
    /\ sends' = [sends EXCEPT ![k].stage = "failed"]
    /\ UNCHANGED <<activeChannel, teamMessages, teamNewMessage, teamAiTyping,
                   mounted, effects, bus, unhandled, received, dataChatFrame>>

\* the 500ms timer fires: setIsAiTyping(true) and the 2000ms timer is set
Timer500Fires(k) ==
    /\ mounted
    /\ sends[k].stage = "delay500"
    /\ sends' = [sends EXCEPT ![k].stage = "delay2000"]
    /\ teamAiTyping' = TRUE
    /\ UNCHANGED <<activeChannel, teamMessages, teamNewMessage, mounted, effects,
                   bus, unhandled, received, dataChatFrame>>

\* the 2000ms timer fires: generateAIResponse calls generateText
Timer2000Fires(k) ==
    /\ mounted
    /\ sends[k].stage = "delay2000"
    /\ sends' = [sends EXCEPT ![k].stage = "completion"]
    /\ UNCHANGED <<activeChannel, teamMessages, teamNewMessage, teamAiTyping,
                   mounted, effects, bus, unhandled, received, dataChatFrame>>

\* generateText settled: the rest of the delayed callback
CompletionSettled(k, ok) ==
    /\ mounted
    /\ sends[k].stage = "completion"
    /\ sends' = [sends EXCEPT ![k].stage = "done",
                              ![k].completion = IF ok THEN "ok" ELSE "failed"]
    /\ LET aiResponse == GenerateAIResponse(ok, sends[k].text)
       IN  IF aiResponse.threw
           THEN /\ unhandled' = unhandled + 1
                /\ UNCHANGED <<teamMessages, teamAiTyping>>
           ELSE /\ AppendToTranscript(<<AiMessage(aiResponse.text, k)>>)
                /\ teamAiTyping' = FALSE
                /\ UNCHANGED unhandled
    /\ UNCHANGED <<activeChannel, teamNewMessage, mounted, effects, bus,
                   received, dataChatFrame>>

\* the service hands out the user's own published message
EchoDelivered(message) ==
    /\ mounted
    /\ message \in bus
    /\ LiveOn(message.topic) # {}
    /\ HandOut(message)
    /\ bus' = bus \ {message}
    /\ UNCHANGED <<activeChannel, teamNewMessage, teamAiTyping, mounted, effects,
                   sends, unhandled, received, dataChatFrame>>

\* the service hands out another user's message on a subscribed topic, the
\* component still there to take it
ForeignEventArrives(message) ==
    /\ mounted
    /\ received < MaxEvents
    /\ LiveOn(message.topic) # {}
    /\ HandOut(message)
    /\ received' = received + 1
    /\ UNCHANGED <<activeChannel, teamNewMessage, teamAiTyping, mounted, effects,
                   sends, bus, unhandled, dataChatFrame>>

ChannelClicked == \E channel \in ClickedChannels : SetActiveChannel(channel)
SubscribeResolves == \E i \in 1..Len(effects) : SubscribeResolved(i)
SubscribeRejects == \E i \in 1..Len(effects) : SubscribeRejected(i)
TeamUserTypes == \E text \in TeamTexts : SetTeamNewMessage(text)
PublishResolves == \E k \in 1..Len(sends) : PublishResolved(k)
PublishRejects == \E k \in 1..Len(sends) : PublishRejected(k)
Timer500 == \E k \in 1..Len(sends) : Timer500Fires(k)
Timer2000 == \E k \in 1..Len(sends) : Timer2000Fires(k)
CompletionResolves == \E k \in 1..Len(sends) : CompletionSettled(k, TRUE)
CompletionRejects == \E k \in 1..Len(sends) : CompletionSettled(k, FALSE)
EchoArrives == \E message \in bus : EchoDelivered(message)
ForeignArrives ==
    \E channel \in ClickedChannels :
        \E message \in ForeignEvents(Topic(channel)) : ForeignEventArrives(message)

\* sendMessage and its delayed reply, under channel changes and teardown
TeamNext ==
    \/ ChannelClicked
    \/ Unmount
    \/ TeamUserTypes
    \/ TeamSendMessageBlank
    \/ TeamSendMessage
    \/ PublishResolves
    \/ PublishRejects
    \/ Timer500
    \/ Timer2000
    \/ CompletionResolves
    \/ CompletionRejects

TeamSpec == TeamInit /\ [][TeamNext]_vars

\* promises settle and timers fire
TeamProgress ==
    /\ WF_vars(PublishResolves \/ PublishRejects)
    /\ WF_vars(Timer500)
    /\ WF_vars(Timer2000)
    /\ WF_vars(CompletionResolves \/ CompletionRejects)

TeamLiveSpec == TeamSpec /\ TeamProgress

\* the realtime subscription of each effect run and the messages the service
\* hands out, under channel changes, teardown and the user's own publishes
RealtimeNext ==
    \/ ChannelClicked
    \/ Unmount
    \/ SubscribeResolves
    \/ SubscribeRejects
    \/ TeamUserTypes
    \/ TeamSendMessage
    \/ PublishResolves
    \/ PublishRejects
    \/ EchoArrives
    \/ ForeignArrives

RealtimeSpec == TeamInit /\ [][RealtimeNext]_vars

----------------------------------------------------------------------------
(* Steps of a team-chat send, told from its stage before and after *)

Help == <<"h", "e", "l", "p">>

\* the k-th send was made and its text contains "help" in some letter case
SentHelp(k) == k <= Len(sends) /\ ContainsIgnoringCase(sends[k].text, Help)

\* the step in which the completion call of the k-th send settles
CompletionEnds(k, outcome) ==
    /\ sends[k].stage = "completion"
    /\ sends'[k].stage = "done"
    /\ sends'[k].completion = outcome

\* the order in which a send passes its stages
StageOrder ==
    { <<"publish", "failed">>, <<"publish", "quiet">>, <<"publish", "delay500">>,
      <<"delay500", "delay2000">>, <<"delay2000", "completion">>,
      <<"completion", "done">> }

\* the transcript's messages written by the delayed callback of the k-th send
RepliesTo(k) == {i \in 1..Len(teamMessages) : teamMessages[i].id = <<"now+1", k>>}

(* C15: a sent message containing "help" in any letter case leads to its    *)
(* publish having failed or its delayed callback having finished (while the *)
(* component is mounted); the callback's completion call is made only after *)
(* the 500ms and the 2000ms timer, in this order; when the call succeeds    *)
(* the step appends exactly one message, of type 'ai' with the returned     *)
(* text; and the transcript never holds two replies to one send.            *)
C15_HelpGetsOneAiReply ==
    /\ \A k \in 1..MaxSends :
          (SentHelp(k) /\ sends[k].stage = "publish")
              ~> (~mounted \/ (SentHelp(k) /\ sends[k].stage \in {"failed", "done"}))
    /\ [][\A k \in 1..Len(sends) :
             /\ sends'[k].stage # sends[k].stage =>
                    <<sends[k].stage, sends'[k].stage>> \in StageOrder
             /\ (SentHelp(k) /\ sends[k].stage = "publish"
                    /\ sends'[k].stage \notin {"publish", "failed"})
                    => sends'[k].stage = "delay500"
             /\ CompletionEnds(k, "ok") =>
                    /\ Len(teamMessages') = Len(teamMessages) + 1
                    /\ SubSeq(teamMessages', 1, Len(teamMessages)) = teamMessages
                    /\ teamMessages'[Len(teamMessages')].type = "ai"
                    /\ teamMessages'[Len(teamMessages')].content
                           = CompletionText(sends[k].text)]_vars
    /\ [](\A k \in 1..Len(sends) : Cardinality(RepliesTo(k)) <= 1)

\* "HeLP" was sent and answered: the reply is the transcript's last message
C15_Witness ==
    /\ mounted
    /\ SentHelp(1)
    /\ sends[1].text # ToLowerCase(sends[1].text)
    /\ sends[1].stage = "done"
    /\ sends[1].completion = "ok"
    /\ teamMessages[Len(teamMessages)].type = "ai"
    /\ teamMessages[Len(teamMessages)].content = CompletionText(sends[1].text)

(* C16: the step in which a completion call fails keeps every message of    *)
(* the transcript in place and in order and clears the typing indicator; no *)
(* error ever escapes a callback; and a pending completion call leads to    *)
(* the typing indicator being cleared (while the component is mounted).     *)
C16_FailedCompletionKeepsTranscript ==
    /\ [][\A k \in 1..Len(sends) :
             CompletionEnds(k, "failed") =>
                 /\ Len(teamMessages') >= Len(teamMessages)
                 /\ SubSeq(teamMessages', 1, Len(teamMessages)) = teamMessages
                 /\ ~teamAiTyping'
                 /\ unhandled' = unhandled]_vars
    /\ [](unhandled = 0)
    /\ \A k \in 1..MaxSends :
          (k <= Len(sends) /\ sends[k].stage = "completion")
              ~> (~mounted \/ ~teamAiTyping)

\* a completion call failed: the transcript still starts with the sample
\* messages and the sent message, and the indicator is off
C16_Witness ==
    /\ mounted
    /\ Len(sends) >= 1
    /\ sends[1].completion = "failed"
    /\ unhandled = 0
    /\ ~teamAiTyping
    /\ Len(teamMessages) > Len(SampleMessages)
    /\ SubSeq(teamMessages, 1, Len(SampleMessages)) = SampleMessages
    /\ teamMessages[Len(SampleMessages) + 1].type = "user"

(* C17 as stated: the step in which a completion call fails appends no      *)
(* message to the transcript.                                               *)
C17_FailedCompletionDropped ==
    [][\A k \in 1..Len(sends) :
          CompletionEnds(k, "failed") => teamMessages' = teamMessages]_vars

(* C17: the step in which a completion call fails appends exactly one       *)
(* message, of type 'ai' by 'AI Assistant', carrying the fixed fallback     *)
(* text.                                                                    *)
C17_FailedCompletionAppendsFallback ==
    [][\A k \in 1..Len(sends) :
          CompletionEnds(k, "failed") =>
              /\ Len(teamMessages') = Len(teamMessages) + 1
              /\ SubSeq(teamMessages', 1, Len(teamMessages)) = teamMessages
              /\ teamMessages'[Len(teamMessages')].type = "ai"
              /\ teamMessages'[Len(teamMessages')].userName = "AI Assistant"
              /\ teamMessages'[Len(teamMessages')].content = FallbackText]_vars

\* the fallback text stands in the transcript as the reply to a failed call
C17_Witness ==
    /\ Len(sends) >= 1
    /\ sends[1].completion = "failed"
    /\ \E i \in RepliesTo(1) : teamMessages[i].content = FallbackText

----------------------------------------------------------------------------
(* Steps of the realtime subscription *)

\* the message the subscribe callback is to build from a realtime message
MessageOf(message) ==
    TeamMessage(message.id, message.content, message.userId,
                IF message.displayName = NoVal THEN "Unknown User"
                ELSE message.displayName[1],
                <<"srv", message.id[2]>>,
                IF message.dataType = NoVal THEN "user" ELSE message.dataType[1])

(* C18: every change of the active channel leaves the transcript equal to   *)
(* the four sample messages and starts a subscription to the topic of the   *)
(* new channel.                                                             *)
C18_SwitchResetsToSample ==
    [][activeChannel' # activeChannel =>
         /\ teamMessages' = SampleMessages
         /\ Len(teamMessages') = 4
         /\ effects' # <<>>
         /\ LET new == effects'[Len(effects')]
            IN  /\ new.topic = <<"chat-", activeChannel'>>
                /\ new.sub = "subscribing"
                /\ ~new.cleaned
                /\ \A i \in 1..Len(effects) : effects[i].run # new.run]_vars

\* the user sent a message and received one in 'general', then switched:
\* the transcript is the sample, the subscription is for the new channel
C18_Witness ==
    /\ activeChannel = Channels[2]
    /\ teamMessages = SampleMessages
    /\ Len(sends) = 1
    /\ sends[1].topic = Topic(Channels[1])
    /\ received = 1
    /\ effects[Len(effects)].topic = Topic(Channels[2])

(* C19: every live subscription belongs to the latest run of the effect of  *)
(* a mounted component and is for the topic of the active channel.          *)
C19_OnlyActiveSubscriptionLive ==
    \A i \in 1..Len(effects) :
        effects[i].sub = "live" =>
            /\ mounted
            /\ i = Len(effects)
            /\ ~effects[i].cleaned
            /\ effects[i].topic = Topic(activeChannel)

(* C20: a realtime message handed out on the active topic appends exactly   *)
(* one Message built from it when its kind is 'chat' (userName 'Unknown     *)
(* User' and type 'user' where it names none) and nothing otherwise; the    *)
(* echo of the user's own message is appended like any other.               *)
C20_ChatEventAppendsOne ==
    [][/\ \A message \in bus :
            (message \notin bus' /\ message.topic = Topic(activeChannel)) =>
                teamMessages' = Append(teamMessages, MessageOf(message))
       /\ received' # received =>
            \/ teamMessages' = teamMessages
            \/ \E channel \in ClickedChannels :
                  \E message \in ForeignEvents(Topic(channel)) :
                      /\ message.type = "chat"
                      /\ (message.topic = Topic(activeChannel)) =>
                             teamMessages' = Append(teamMessages, MessageOf(message))
                      /\ Len(teamMessages') > Len(teamMessages)
                      /\ teamMessages'[Len(teamMessages')] = MessageOf(message)]_vars

----------------------------------------------------------------------------
(* The shell: App (src/src/App.tsx), with the Sidebar's links                *)
(* (src/unnamed/part_001).  React applies the two setState calls of the     *)
(* auth callback in one render.  The screens' own state is that of their    *)
(* specifications above and stays as constructed here.                      *)

\* auth-state notifications in one run
MaxAuthStates == 2

\* the paths of the <Route> elements that mount a screen (src/src/App.tsx:52-56)
Routes == {"/dashboard", "/chat", "/data-chat", "/analysis", "/profile"}

\* the paths the page can be opened at: the root, the routes, and a path no
\* route matches
Paths == {"/", "/nowhere"} \cup Routes

\* the auth states the external client can notify
AuthStates == {AuthState(user, isLoading) :
                   user \in {NoVal, Some(CurrentUser)}, isLoading \in BOOLEAN}

\* the element <Routes> renders for a path (src/src/App.tsx:50-57)
RouteElement(p) ==
    CASE p = "/" -> "Navigate"
      [] p = "/dashboard" -> "Dashboard"
      [] p = "/chat" -> "ChatWorkspace"
      [] p = "/data-chat" -> "DataChat"
      [] p = "/analysis" -> "DataAnalysis"
      [] p = "/profile" -> "ProfileSettings"
      [] OTHER -> "none"

\* App's render without its first early return
Screen_IgnoresLoading ==
    IF appUser = NoVal THEN "SignIn" ELSE RouteElement(path)

\* what App renders (src/src/App.tsx:24-61)
Screen ==
    IF appLoading THEN "LoadingScreen"
    ELSE IF appUser = NoVal THEN "SignIn"
    ELSE RouteElement(path)

\* the <Router> subtree, with the Sidebar, is rendered
RouterMounted == Screen \notin {"LoadingScreen", "SignIn"}

\* useState's initial values, the page opened at any path
ShellInit ==
    /\ appUser = NoVal
    /\ appLoading = TRUE
    /\ path \in Paths
    /\ authStates = <<>>
    /\ InitCatalog /\ selected = NoVal /\ InitChat /\ WorkspaceUnmounted /\ NoOtherTabs

shellFrame == <<catalogVars, selected, chatVars, workspaceVars, tabs>>

\* the callback handed to onAuthStateChanged (src/src/App.tsx:17-20)
OnAuthStateChanged(state) ==
    /\ Len(authStates) < MaxAuthStates
    /\ appUser' = state.user
    /\ appLoading' = state.isLoading
    /\ authStates' = Append(authStates, state)
    /\ UNCHANGED <<path, shellFrame>>

\* a click on one of the Sidebar's links (src/unnamed/part_001:31-35, 94-96)
LinkClicked(href) ==
    /\ RouterMounted
    /\ path # href
    /\ path' = href
    /\ UNCHANGED <<appUser, appLoading, authStates, shellFrame>>

\* <Navigate to="/dashboard" replace /> at the root (src/src/App.tsx:51)
NavigateToDashboard ==
    /\ Screen = "Navigate"
    /\ path' = "/dashboard"
    /\ UNCHANGED <<appUser, appLoading, authStates, shellFrame>>

AuthStateNotified == \E state \in AuthStates : OnAuthStateChanged(state)
SidebarNavigates == \E href \in Routes : LinkClicked(href)

ShellNext == AuthStateNotified \/ SidebarNavigates \/ NavigateToDashboard

ShellSpec == ShellInit /\ [][ShellNext]_vars

\* the screens a <Route> mounts
RoutedScreens ==
    {"Dashboard", "ChatWorkspace", "DataChat", "DataAnalysis", "ProfileSettings"}

\* the auth state notified last
LastAuthState == authStates[Len(authStates)]

\* C21: a routed screen is mounted only if the last auth-state notification
\* had isLoading false and a user; while the last notification has isLoading
\* true the loading screen is shown, and while it has isLoading false and no
\* user the sign-in prompt is shown, whatever the URL path is.
C21_ScreensBehindAuth ==
    /\ Screen \in RoutedScreens =>
           /\ authStates # <<>>
           /\ ~LastAuthState.isLoading
           /\ LastAuthState.user # NoVal
    /\ authStates # <<>> =>
           /\ LastAuthState.isLoading => Screen = "LoadingScreen"
           /\ ~LastAuthState.isLoading /\ LastAuthState.user = NoVal
                  => Screen = "SignIn"

\* after a sign-out the page is at a route the user had opened from the
\* Sidebar, and the sign-in prompt is all that is shown
C21_Witness ==
    /\ Len(authStates) = 2
    /\ authStates[1] = AuthState(Some(CurrentUser), FALSE)
    /\ LastAuthState = AuthState(NoVal, FALSE)
    /\ path = "/profile"
    /\ Screen = "SignIn"

----------------------------------------------------------------------------
(* Uploads of files of every kind of name: handleFileUpload                  *)
(* (src/unnamed/part_000:457-542) from the open dialog of a loaded catalog  *)

NamedFile(name) == [name |-> name, size |-> 1024]

\* names with each extension the detection knows, in either case, with an
\* extension it does not know, with two dots, ending in a dot, and without a dot
NamedFiles ==
    Files \cup
    { NamedFile(<<"r", ".", "x", "l", "s", "x">>),
      NamedFile(<<"r", ".", "X", "L", "S">>),
      NamedFile(<<"n", ".", "l", "o", "g">>),
      NamedFile(<<"c", ".", "j", "s", "o", "n", ".", "l", "o", "g">>),
      NamedFile(<<"n", ".">>),
      NamedFile(<<"n", "o", "t", "e", "s">>),
      NamedFile(<<"j", "s", "o", "n">>),
      NamedFile(<<"X", "L", "S">>) }

\* the catalog loaded, its upload dialog open
UploadsInit ==
    /\ dataSources = <<>>
    /\ loading = FALSE
    /\ uploading = FALSE
    /\ searchQuery = <<>>
    /\ showUploadDialog = TRUE
    /\ persisted \in PriorStorage
    /\ addPc = "idle"
    /\ addFile = NoVal
    /\ addCaptured = <<>>
    /\ addNew = NoVal
    /\ addPersisted0 = NothingStored
    /\ pendingSaves = {}
    /\ now = FirstTick
    /\ selected = NoVal
    /\ InitChat
    /\ WorkspaceUnmounted
    /\ NoOtherTabs
    /\ SignedInAt("/data-chat")

FileChosen == \E file \in NamedFiles : HandleFileUploadStart(file)
AnalysisResolves == \E analysis \in {CsvAnalysis, JsonAnalysis} : AnalysisResolved(analysis)

UploadsNext ==
    \/ FileChosen
    \/ UploadAwaitResolved
    \/ UploadAwaitRejected
    \/ AnalysisResolves
    \/ SaveResolved
    \/ SaveRejected

UploadsSpec == UploadsInit /\ [][UploadsNext]_vars

\* s and t are the same text but for the case of their letters
SameIgnoringCase(s, t) ==
    Len(s) = Len(t) /\ \A i \in 1..Len(s) : SameLetter(s[i], t[i])

HasDot(name) == \E i \in 1..Len(name) : name[i] = "."

\* the text after the last dot of a name that has one
Extension(name) ==
    LET last == CHOOSE i \in 1..Len(name) :
                    name[i] = "." /\ \A j \in (i + 1)..Len(name) : name[j] # "."
    IN  [k \in 1..(Len(name) - last) |-> name[last + k]]

\* the type of a name by its extension, 'csv' for every other name
TypeByExtension(name) ==
    IF ~HasDot(name) THEN "csv"
    ELSE IF SameIgnoringCase(Extension(name), <<"j", "s", "o", "n">>) THEN "json"
    ELSE IF \/ SameIgnoringCase(Extension(name), <<"x", "l", "s", "x">>)
            \/ SameIgnoringCase(Extension(name), <<"x", "l", "s">>) THEN "excel"
    ELSE "csv"

\* C22: the record an add builds has the type of its file's extension, compared
\* without regard to case on the text after the last dot: 'json', 'excel' for
\* xlsx and xls, 'csv'; a name with any other extension or with no dot gets
\* 'csv', and no record built by add has type 'database'.
C22_TypeFromExtension ==
    [][AddBuildsRecord =>
           /\ Get(addNew').type = TypeByExtension(Get(addFile).name)
           /\ Get(addNew').type # "database"]_vars

----------------------------------------------------------------------------
(* Replies and the selection they were asked under *)

\* C23: the reply (answer, apology or report) to a request issued while one
\* source was selected is not appended once another source is selected: the
\* step that ends such a request leaves the transcript of the new source as
\* it is.
C23_NoReplyAfterSwitch ==
    [][\A r \in pendingAI :
           Replied(r) /\ selected # Some(r.dataSource) => messages' = messages]_vars

----------------------------------------------------------------------------
(* Adds and removes that overlap *)

\* the ids a remove has taken out of the persisted collection since the add
\* in flight began
RemovedDuringAdd ==
    (Ids(addPersisted0.items) \cap Ids(addCaptured)) \ Ids(persisted.items)

\* C24: a record whose remove completed while an add was in flight stays
\* removed: when the add completes, neither the in-memory nor the persisted
\* collection contains the removed id.
C24_RemovedStaysRemoved ==
    [][AddCompletes =>
           \A id \in RemovedDuringAdd :
               id \notin Ids(dataSources') /\ id \notin Ids(persisted'.items)]_vars

\* no add is between its start and its end, and no save is awaiting its lookup
Quiescent == pendingSaves = {} /\ addPc \notin AwaitedCalls \cup {"save"}

\* a save returned, resolved or rejected
SaveReturns == \E s \in pendingSaves : s \notin pendingSaves'

\* C25: once every started add and remove has completed, their saves
\* included, the persisted collection (empty while nothing is stored) equals
\* the in-memory collection, in whatever order the saves resolved and also
\* when a save failed.
C25_PersistedEqualsMemoryAtRest ==
    [][SaveReturns /\ Quiescent' =>
           persisted'.items = Stringify(dataSources')]_vars

----------------------------------------------------------------------------
(* The selection and the catalog *)

\* C26: the source selected in the chat surface is none or a member of the
\* catalog's in-memory collection; after remove(id) of the selected source
\* it is no longer the selection.
C26_SelectionInCatalog ==
    IsSome(selected) => Get(selected).id \in Ids(dataSources)

----------------------------------------------------------------------------
(* The typing indicator and the requests in flight *)

\* C27: the typing indicator is on in every state in which the completion
\* request of an ask or of a report is in flight, also when an ask and a
\* report overlap and one of them has finished.
C27_TypingWhileRequestPending ==
    pendingAI # {} => isAiTyping

----------------------------------------------------------------------------
(* Team chat: the delayed reply and the channel of its message *)

\* the delayed callback of the k-th send comes to its end
ReplySettles(k) == CompletionEnds(k, "ok") \/ CompletionEnds(k, "failed")

\* C28: the AI response to a message sent in one channel is appended to that
\* channel's transcript only: when the active channel has changed since the
\* send, the end of the delayed callback leaves the transcript shown, that
\* of the other channel, as it is.
C28_ReplyStaysInItsChannel ==
    [][\A k \in 1..Len(sends) :
           ReplySettles(k) /\ sends[k].topic # Topic(activeChannel)
               => teamMessages' = teamMessages]_vars

----------------------------------------------------------------------------
(* Team chat: a publish that fails *)

\* the publish of the k-th send is rejected
PublishFails(k) == sends[k].stage = "publish" /\ sends'[k].stage = "failed"

\* C29: when the publish of a message fails, the error is caught inside
\* send: the transcript, with the optimistic message, and the input text
\* are left as they are and no error escapes; and no AI completion is ever
\* scheduled for that message, keyword or not: the send stays where the
\* failure left it, the typing indicator is not raised and no reply is
\* appended for it.
C29_FailedPublishStopsSend ==
    [][\A k \in 1..Len(sends) :
           /\ PublishFails(k) =>
                  /\ teamMessages' = teamMessages
                  /\ teamNewMessage' = teamNewMessage
                  /\ unhandled' = unhandled
                  /\ teamAiTyping' = teamAiTyping
           /\ sends[k].stage = "failed" =>
                  /\ sends'[k] = sends[k]
                  /\ RepliesTo(k) = {}
                  /\ \A i \in 1..Len(teamMessages') :
                         teamMessages'[i].id # <<"now+1", k>>]_vars

\* the publish of a keyword message has failed: its optimistic copy ends the
\* transcript and the input still holds its text
C29_Witness ==
    /\ Len(sends) >= 1
    /\ sends[1].stage = "failed"
    /\ HasKeyword(sends[1].text)
    /\ teamNewMessage = sends[1].text
    /\ teamMessages # <<>>
    /\ teamMessages[Len(teamMessages)] = TempMessage(sends[1].text, 1)

----------------------------------------------------------------------------
(* The two chat pages: DataChat at /data-chat and ChatWorkspace at /chat    *)
(* (src/src/App.tsx:53-54), one of them open                                *)

SendsInit == ChatInit \/ TeamInit

\* the steps of ChatNext on the one page and those of TeamNext on the other
SendsNext ==
    \/ path = "/data-chat" /\ SelectionChanges
    \/ path = "/data-chat" /\ ExtractionResolves
    \/ path = "/data-chat" /\ ExtractionRejects
    \/ path = "/data-chat" /\ UserTypes
    \/ path = "/data-chat" /\ SendMessageBlank
    \/ path = "/data-chat" /\ SendMessage
    \/ path = "/data-chat" /\ AskResolves
    \/ path = "/data-chat" /\ AskRejects
    \/ path = "/data-chat" /\ GenerateDataReport
    \/ path = "/data-chat" /\ ReportResolves
    \/ path = "/data-chat" /\ ReportRejects
    \/ path = "/chat" /\ ChannelClicked
    \/ path = "/chat" /\ Unmount
    \/ path = "/chat" /\ TeamUserTypes
    \/ path = "/chat" /\ TeamSendMessageBlank
    \/ path = "/chat" /\ TeamSendMessage
    \/ path = "/chat" /\ PublishResolves
    \/ path = "/chat" /\ PublishRejects
    \/ path = "/chat" /\ Timer500
    \/ path = "/chat" /\ Timer2000
    \/ path = "/chat" /\ CompletionResolves
    \/ path = "/chat" /\ CompletionRejects

SendsSpec == SendsInit /\ [][SendsNext]_vars


\* the text is empty or holds spaces only
BlankText(s) == \A i \in 1..Len(s) : s[i] = " "

\* a step appends the user's message to the data chat's transcript
UserMessageAppended ==
    /\ Len(messages') = Len(messages) + 1
    /\ messages'[Len(messages')].type = "user"

\* a step that issues the completion request of a report
ReportIssued == \E r \in pendingAI' \ pendingAI : r.kind = "report"

\* a step appends the user's optimistic message to the team transcript
TempMessageAppended ==
    /\ Len(teamMessages') = Len(teamMessages) + 1
    /\ teamMessages'[Len(teamMessages')].userId = TeamUser.id

\* C30: a send with blank input changes nothing and calls nothing. In team
\* chat, while the input is empty or spaces only, no step appends the user's
\* message or publishes. In data chat, while the input is empty or spaces
\* only or no source is selected, no step appends a user message or issues
\* the completion request of an ask, and the typing indicator is raised by
\* nothing but a report.
C30_BlankSendDoesNothing ==
    [][/\ BlankText(teamNewMessage) =>
              /\ ~TempMessageAppended
              /\ Len(sends') = Len(sends)
       /\ BlankText(newMessage) \/ ~IsSome(selected) =>
              /\ ~UserMessageAppended
              /\ ~AskIssued
              /\ isAiTyping' /\ ~isAiTyping => ReportIssued]_vars

\* the data chat after a question and its answer, spaces typed into the input
\* and the send button's handler free to run
C30_Witness ==
    /\ IsSome(selected)
    /\ newMessage = <<" ">>
    /\ ~isAiTyping
    /\ pendingAI = {}
    /\ Len(messages) = 3
    /\ messages[2].type = "user"

====
